---- MODULE Spec2Model ----
(***************************************************************************)
(* Client-side state of the trading dashboard:                             *)
(*   - the TradingContext store (tradingReducer and its dispatchers),      *)
(*   - the useTradingData hook (the backend gateway and its own snapshot). *)
(***************************************************************************)
EXTENDS Integers, Sequences, FiniteSets, TLC

\* JavaScript null / undefined.
NULL == "null"

\* JavaScript truthiness of a string-or-null value, as used by `a || b`.
Truthy(v) == v # NULL /\ v # ""

\* A nullable object or array is a sequence of at most one element: <<>> is
\* JavaScript null / undefined, <<v>> is the value v.
Absent == <<>>
Present(v) == <<v>>
IsNull(m) == Len(m) = 0
Deref(m) == m[1]

VARIABLES
    state,        \* TradingContext: the reducer's state object
    lastAction,   \* TradingContext: type of the action dispatched last, or "none"
    data,         \* useTradingData: useState(null)
    indicators,   \* useTradingData: useState(null)
    trades,       \* useTradingData: useState(null)
    performance,  \* useTradingData: useState(null)
    loading,      \* useTradingData: useState(false)
    error,        \* useTradingData: useState(null)
    inflight,     \* requests sent and not yet answered, oldest first
    running,      \* the call whose synchronous code is executing
    completed,    \* the call whose code finished in the last step
    args,         \* props / arguments handed to the pure function under evaluation
    result,       \* what that function returned, once it has been evaluated
    sidebar,      \* Sidebar: useState symbol, interval, daysBack
    dashboard,    \* TradingDashboard: useState symbol, interval, daysBack, and
                  \* the dependency list its effect last ran with
    requests,     \* the fetchData / runBacktest calls the dashboard made, in order
    clicks        \* how many user events the page has handled

storeVars == <<state, lastAction>>
hookVars == <<data, indicators, trades, performance, loading, error>>
gatewayVars == <<data, indicators, trades, performance, loading, error,
                 inflight, running, completed>>
viewVars == <<args, result>>
uiVars == <<sidebar, dashboard, requests, clicks>>
vars == <<state, lastAction, data, indicators, trades, performance, loading,
          error, inflight, running, completed, args, result,
          sidebar, dashboard, requests, clicks>>

-----------------------------------------------------------------------------
\* TradingContext.js

initialState ==
    [ data |-> NULL, indicators |-> NULL, trades |-> NULL, performance |-> NULL,
      loading |-> FALSE, error |-> NULL,
      isConnected |-> FALSE, isLiveTrading |-> FALSE,
      symbol |-> "ROSEUSDT", interval |-> "5m", daysBack |-> 7,
      takeProfit |-> 2, stopLoss |-> 1,
      fastLength |-> 12, slowLength |-> 26, signalSmoothing |-> 9 ]

Fields == DOMAIN initialState

DataFields == {"data", "indicators", "trades", "performance"}

ConfigFields ==
    {"symbol", "interval", "daysBack", "takeProfit", "stopLoss",
     "fastLength", "slowLength", "signalSmoothing"}

actionTypes ==
    { "SET_LOADING", "SET_ERROR", "SET_DATA", "SET_INDICATORS", "SET_TRADES",
      "SET_PERFORMANCE", "SET_CONNECTION_STATUS", "SET_LIVE_TRADING",
      "UPDATE_CONFIG", "UPDATE_STRATEGY_PARAMS", "CLEAR_DATA" }

\* Triggers the reducer does not list.
UnknownTypes == { "RESET", "SET_VOLUME" }

\* The two values each field takes in the model: its initial value and another.
Other(k) ==
    CASE k = "data"            -> "d1"
      [] k = "indicators"      -> "i1"
      [] k = "trades"          -> "t1"
      [] k = "performance"     -> "p1"
      [] k = "loading"         -> TRUE
      [] k = "error"           -> "e1"
      [] k = "isConnected"     -> TRUE
      [] k = "isLiveTrading"   -> TRUE
      [] k = "symbol"          -> "BTCUSDT"
      [] k = "interval"        -> "1h"
      [] k = "daysBack"        -> 30
      [] k = "takeProfit"      -> 3
      [] k = "stopLoss"        -> 2
      [] k = "fastLength"      -> 10
      [] k = "slowLength"      -> 30
      [] k = "signalSmoothing" -> 5

Val(k, c) == IF c = 0 THEN initialState[k] ELSE Other(k)

\* Key sets of the partial objects handed to updateConfig and
\* updateStrategyParams: the empty object, one status, data or config key, the
\* sidebar's groups of controls, and the two status keys together.
WindowFields == {"symbol", "interval", "daysBack"}
RiskFields == {"takeProfit", "stopLoss"}
LengthFields == {"fastLength", "slowLength", "signalSmoothing"}

PatchDomains ==
    { {} } \cup { {k} : k \in (Fields \ ConfigFields) \cup {"symbol"} }
    \cup { WindowFields, RiskFields, LengthFields, {"loading", "error"} }

\* Which of its two values each key of a partial object carries; a group of
\* controls is patched to one preset.
PatchChoices(D) ==
    IF D \in {WindowFields, RiskFields, LengthFields}
    THEN { [k \in D |-> c] : c \in {0, 1} }
    ELSE [D -> {0, 1}]

\* { ...s, ...p }
Spread(s, p) ==
    [ k \in DOMAIN s \cup DOMAIN p |-> IF k \in DOMAIN p THEN p[k] ELSE s[k] ]

\* SET_LOADING leaving the error in place.
SET_LOADING_keepsError(s, payload) == [s EXCEPT !.loading = payload]

SET_LOADING(s, payload) == [s EXCEPT !.loading = payload, !.error = NULL]

SET_ERROR(s, payload) == [s EXCEPT !.error = payload, !.loading = FALSE]

SET_DATA(s, payload) == [s EXCEPT !.data = payload, !.loading = FALSE, !.error = NULL]

\* SET_INDICATORS ending the load cycle as SET_DATA does.
SET_INDICATORS_endsLoad(s, payload) ==
    [s EXCEPT !.indicators = payload, !.loading = FALSE, !.error = NULL]

SET_INDICATORS(s, payload) == [s EXCEPT !.indicators = payload]

SET_TRADES(s, payload) == [s EXCEPT !.trades = payload]

SET_PERFORMANCE(s, payload) == [s EXCEPT !.performance = payload]

SET_CONNECTION_STATUS(s, payload) == [s EXCEPT !.isConnected = payload]

SET_LIVE_TRADING(s, payload) == [s EXCEPT !.isLiveTrading = payload]

UPDATE_CONFIG(s, payload) == Spread(s, payload)

UPDATE_STRATEGY_PARAMS(s, payload) == Spread(s, payload)

\* CLEAR_DATA as a full reset of the status fields.
CLEAR_DATA_resetsLoading(s) ==
    [s EXCEPT !.data = NULL, !.indicators = NULL, !.trades = NULL,
              !.performance = NULL, !.error = NULL, !.loading = FALSE]

CLEAR_DATA(s) ==
    [s EXCEPT !.data = NULL, !.indicators = NULL, !.trades = NULL,
              !.performance = NULL, !.error = NULL]

\* An unknown action type treated as a reset.
DefaultCase_resets(s) == initialState

\* default: return state
DefaultCase(s) == s

tradingReducer(s, action) ==
    CASE action.type = "SET_LOADING"            -> SET_LOADING(s, action.payload)
      [] action.type = "SET_ERROR"              -> SET_ERROR(s, action.payload)
      [] action.type = "SET_DATA"               -> SET_DATA(s, action.payload)
      [] action.type = "SET_INDICATORS"         -> SET_INDICATORS(s, action.payload)
      [] action.type = "SET_TRADES"             -> SET_TRADES(s, action.payload)
      [] action.type = "SET_PERFORMANCE"        -> SET_PERFORMANCE(s, action.payload)
      [] action.type = "SET_CONNECTION_STATUS"  -> SET_CONNECTION_STATUS(s, action.payload)
      [] action.type = "SET_LIVE_TRADING"       -> SET_LIVE_TRADING(s, action.payload)
      [] action.type = "UPDATE_CONFIG"          -> UPDATE_CONFIG(s, action.payload)
      [] action.type = "UPDATE_STRATEGY_PARAMS" -> UPDATE_STRATEGY_PARAMS(s, action.payload)
      [] action.type = "CLEAR_DATA"             -> CLEAR_DATA(s)
      [] OTHER                                  -> DefaultCase(s)

\* dispatch of useReducer(tradingReducer, initialState)
dispatch(action) ==
    /\ state' = tradingReducer(state, action)
    /\ lastAction' = action.type

setLoading ==
    \E c \in {0, 1} :
        /\ dispatch([type |-> "SET_LOADING", payload |-> Val("loading", c)])
        /\ UNCHANGED <<gatewayVars, viewVars, uiVars>>

setError ==
    \E c \in {0, 1} :
        /\ dispatch([type |-> "SET_ERROR", payload |-> Val("error", c)])
        /\ UNCHANGED <<gatewayVars, viewVars, uiVars>>

setData ==
    \E c \in {0, 1} :
        /\ dispatch([type |-> "SET_DATA", payload |-> Val("data", c)])
        /\ UNCHANGED <<gatewayVars, viewVars, uiVars>>

setIndicators ==
    \E c \in {0, 1} :
        /\ dispatch([type |-> "SET_INDICATORS", payload |-> Val("indicators", c)])
        /\ UNCHANGED <<gatewayVars, viewVars, uiVars>>

setTrades ==
    \E c \in {0, 1} :
        /\ dispatch([type |-> "SET_TRADES", payload |-> Val("trades", c)])
        /\ UNCHANGED <<gatewayVars, viewVars, uiVars>>

setPerformance ==
    \E c \in {0, 1} :
        /\ dispatch([type |-> "SET_PERFORMANCE", payload |-> Val("performance", c)])
        /\ UNCHANGED <<gatewayVars, viewVars, uiVars>>

setConnectionStatus ==
    \E c \in {0, 1} :
        /\ dispatch([type |-> "SET_CONNECTION_STATUS", payload |-> Val("isConnected", c)])
        /\ UNCHANGED <<gatewayVars, viewVars, uiVars>>

setLiveTrading ==
    \E c \in {0, 1} :
        /\ dispatch([type |-> "SET_LIVE_TRADING", payload |-> Val("isLiveTrading", c)])
        /\ UNCHANGED <<gatewayVars, viewVars, uiVars>>

updateConfig ==
    \E D \in PatchDomains : \E c \in PatchChoices(D) :
        /\ dispatch([type |-> "UPDATE_CONFIG", payload |-> [k \in D |-> Val(k, c[k])]])
        /\ UNCHANGED <<gatewayVars, viewVars, uiVars>>

updateStrategyParams ==
    \E D \in PatchDomains : \E c \in PatchChoices(D) :
        /\ dispatch([type |-> "UPDATE_STRATEGY_PARAMS",
                     payload |-> [k \in D |-> Val(k, c[k])]])
        /\ UNCHANGED <<gatewayVars, viewVars, uiVars>>

clearData ==
    /\ dispatch([type |-> "CLEAR_DATA"])
    /\ UNCHANGED <<gatewayVars, viewVars, uiVars>>

\* A trigger whose type the reducer does not list, with some payload.
unknownTrigger ==
    \E t \in UnknownTypes : \E k \in {"data", "loading", "error"} : \E c \in {0, 1} :
        /\ dispatch([type |-> t, payload |-> [f \in {k} |-> Val(k, c)]])
        /\ UNCHANGED <<gatewayVars, viewVars, uiVars>>

-----------------------------------------------------------------------------
\* useTradingData

\* Requests a caller may have outstanding at once.
MaxInFlight == 2

NoResp ==
    [ kind |-> "none", data |-> NULL, indicators |-> NULL, hasResults |-> FALSE,
      trades |-> NULL, performance |-> NULL, list |-> NULL,
      error |-> NULL, respError |-> NULL, message |-> NULL ]

NoCall == [ op |-> "none", after |-> "none", resp |-> NoResp, pc |-> "-", thrown |-> FALSE ]

NoneCompleted == [ op |-> "none", after |-> "none", resp |-> NoResp, thrown |-> FALSE, ret |-> NULL ]

\* response.data.error of a { success: false } body: absent, empty or a text.
DomainErrors == { NULL, "", "insufficient data" }

\* A { success: false, error } body.
DomainFailures == { [NoResp EXCEPT !.kind = "domain", !.error = e] : e \in DomainErrors }

\* A rejected request: err.response.data.error and err.message of the error
\* axios rejects with (an error status with a body, no response, no message).
Rejections ==
    { [NoResp EXCEPT !.kind = "thrown", !.respError = "server error",
                     !.message = "Request failed with status code 500"],
      [NoResp EXCEPT !.kind = "thrown", !.message = "Network Error"],
      [NoResp EXCEPT !.kind = "thrown", !.message = ""] }

\* The (dataset, indicators) pairs the backend answers a data request with.
DataBodies ==
    { [NoResp EXCEPT !.kind = "ok", !.data = "d1", !.indicators = "i1"],
      [NoResp EXCEPT !.kind = "ok", !.data = "d2", !.indicators = "i2"] }

\* { success: true, results }: results absent, or with trades and performance
\* each present or absent.
BacktestBodies ==
    { [NoResp EXCEPT !.kind = "ok"] }
    \cup { [NoResp EXCEPT !.kind = "ok", !.hasResults = TRUE,
                          !.trades = t, !.performance = p] :
             t \in {NULL, "t1"}, p \in {NULL, "p1"} }

\* { symbols } or { intervals }: the list present or absent.
ListBodies == { [NoResp EXCEPT !.kind = "ok", !.list = l] : l \in {NULL, "list"} }

Responses(op) ==
    CASE op = "fetchData"           -> DataBodies \cup DomainFailures \cup Rejections
      [] op = "runBacktest"         -> BacktestBodies \cup DomainFailures \cup Rejections
      [] op = "startRealTimeStream" -> {[NoResp EXCEPT !.kind = "ok"]} \cup DomainFailures \cup Rejections
      [] op = "stopRealTimeStream"  -> {[NoResp EXCEPT !.kind = "ok"]} \cup DomainFailures \cup Rejections
      [] op = "checkHealth"         -> {[NoResp EXCEPT !.kind = "ok"]} \cup Rejections
      [] op = "getSymbols"          -> ListBodies \cup Rejections
      [] op = "getIntervals"        -> ListBodies \cup Rejections

\* The literal each catch block falls back to.
DefaultMessage(op) ==
    CASE op = "fetchData"           -> "Failed to fetch data"
      [] op = "runBacktest"         -> "Backtest failed"
      [] op = "startRealTimeStream" -> "Failed to start stream"
      [] op = "stopRealTimeStream"  -> "Failed to stop stream"

\* The error object the catch block of `call` receives: the rejection, the
\* Error thrown for { success: false }, or the TypeError of reading a field of
\* an absent results object.
Caught(call) ==
    CASE call.resp.kind = "thrown" ->
            [respError |-> call.resp.respError, message |-> call.resp.message]
      [] call.resp.kind = "domain" ->
            [respError |-> NULL,
             message |-> IF Truthy(call.resp.error) THEN call.resp.error
                         ELSE DefaultMessage(call.op)]
      [] OTHER ->
            [respError |-> NULL, message |-> "TypeError"]

\* err.response?.data?.error || err.message || '<default>'
ErrorText(call) ==
    LET err == Caught(call) IN
    IF Truthy(err.respError) THEN err.respError
    ELSE IF Truthy(err.message) THEN err.message
    ELSE DefaultMessage(call.op)

\* The try block of `call` runs to its end.
Succeeds(call) ==
    /\ call.resp.kind = "ok"
    /\ call.op = "runBacktest" => call.resp.hasResults

Idle == running.op = "none"

CanSend == Idle /\ Len(inflight) < MaxInFlight

Send(op) == inflight' = Append(inflight, [op |-> op, after |-> "none"])

Finish(call, thrown, ret) ==
    /\ running' = NoCall
    /\ completed' = [ op |-> call.op, after |-> call.after, resp |-> call.resp,
                      thrown |-> thrown, ret |-> ret ]

Goto(pc) ==
    /\ running' = [running EXCEPT !.pc = pc]
    /\ completed' = NoneCompleted

At(op, pc) == running.op = op /\ running.pc = pc

\* The requests left in flight once the i-th is answered with r. A data request
\* remembers whether another data request was answered successfully while it
\* waited, and whether that one had been sent after it ("younger") or before
\* it ("older").
Remaining(i, r) ==
    LET mark(j) ==
            IF /\ inflight[i].op = "fetchData" /\ r.kind = "ok"
               /\ inflight[j].op = "fetchData"
            THEN [inflight[j] EXCEPT !.after =
                     IF j < i THEN "younger"
                     ELSE IF @ = "none" THEN "older" ELSE @]
            ELSE inflight[j]
    IN [ j \in 1..(Len(inflight) - 1) |-> IF j < i THEN mark(j) ELSE mark(j + 1) ]

\* A response or a rejection arrives and the awaiting call resumes.
respond ==
    \E i \in DOMAIN inflight : \E r \in Responses(inflight[i].op) :
        /\ Idle
        /\ running' = [ op |-> inflight[i].op, after |-> inflight[i].after,
                        resp |-> r, pc |-> "resume", thrown |-> FALSE ]
        /\ inflight' = Remaining(i, r)
        /\ completed' = NoneCompleted
        /\ UNCHANGED <<storeVars, viewVars, uiVars, hookVars>>

\* fetchData ---------------------------------------------------------------

\* setLoading(true)
fetchData_setLoading ==
    /\ CanSend
    /\ loading' = TRUE
    /\ running' = [NoCall EXCEPT !.op = "fetchData", !.pc = "setError"]
    /\ completed' = NoneCompleted
    /\ UNCHANGED <<storeVars, viewVars, data, indicators, trades, performance, error, inflight>>

\* fetchData called by any consumer of the hook.
fetchData_call == fetchData_setLoading /\ UNCHANGED uiVars

\* setError(null); await axios.get(...)
fetchData_await ==
    /\ At("fetchData", "setError")
    /\ error' = NULL
    /\ Send("fetchData")
    /\ running' = NoCall
    /\ completed' = NoneCompleted
    /\ UNCHANGED <<storeVars, viewVars, uiVars, data, indicators, trades, performance, loading>>

\* The success branch with a guard that drops an answer overtaken by the
\* answer to a younger request.
fetchData_dataset_guarded(call) ==
    IF call.after = "younger" THEN data ELSE call.resp.data

\* The dataset the success branch stores.
fetchData_dataset(call) == call.resp.data

\* setData(response.data.data)
fetchData_setData ==
    /\ At("fetchData", "resume")
    /\ Succeeds(running)
    /\ data' = fetchData_dataset(running)
    /\ Goto("setIndicators")
    /\ UNCHANGED <<storeVars, viewVars, uiVars, indicators, trades, performance, loading, error, inflight>>

\* The success branch keeping indicators it already holds.
fetchData_setIndicators_once ==
    /\ At("fetchData", "setIndicators")
    /\ indicators' = (IF indicators = NULL THEN running.resp.indicators ELSE indicators)
    /\ Goto("finally")
    /\ UNCHANGED <<storeVars, viewVars, uiVars, data, trades, performance, loading, error, inflight>>

\* setIndicators(response.data.indicators)
fetchData_setIndicators ==
    /\ At("fetchData", "setIndicators")
    /\ indicators' = running.resp.indicators
    /\ Goto("finally")
    /\ UNCHANGED <<storeVars, viewVars, uiVars, data, trades, performance, loading, error, inflight>>

\* catch (err) { setError(...) }
fetchData_catch ==
    /\ At("fetchData", "resume")
    /\ ~Succeeds(running)
    /\ error' = ErrorText(running)
    /\ Goto("finally")
    /\ UNCHANGED <<storeVars, viewVars, uiVars, data, indicators, trades, performance, loading, inflight>>

\* The finally block leaving loading as it is.
fetchData_finally_keepsLoading ==
    /\ At("fetchData", "finally")
    /\ Finish(running, FALSE, NULL)
    /\ UNCHANGED <<storeVars, viewVars, uiVars, hookVars, inflight>>

\* finally { setLoading(false) }
fetchData_finally ==
    /\ At("fetchData", "finally")
    /\ loading' = FALSE
    /\ Finish(running, FALSE, NULL)
    /\ UNCHANGED <<storeVars, viewVars, uiVars, data, indicators, trades, performance, error, inflight>>

\* runBacktest -------------------------------------------------------------

\* setLoading(true)
runBacktest_setLoading ==
    /\ CanSend
    /\ loading' = TRUE
    /\ running' = [NoCall EXCEPT !.op = "runBacktest", !.pc = "setError"]
    /\ completed' = NoneCompleted
    /\ UNCHANGED <<storeVars, viewVars, data, indicators, trades, performance, error, inflight>>

\* runBacktest called by any consumer of the hook.
runBacktest_call == runBacktest_setLoading /\ UNCHANGED uiVars

\* setError(null); await axios.post(...)
runBacktest_await ==
    /\ At("runBacktest", "setError")
    /\ error' = NULL
    /\ Send("runBacktest")
    /\ running' = NoCall
    /\ completed' = NoneCompleted
    /\ UNCHANGED <<storeVars, viewVars, uiVars, data, indicators, trades, performance, loading>>

\* setTrades(results.trades || [])
runBacktest_setTrades ==
    /\ At("runBacktest", "resume")
    /\ Succeeds(running)
    /\ trades' = (IF Truthy(running.resp.trades) THEN running.resp.trades ELSE "[]")
    /\ Goto("setPerformance")
    /\ UNCHANGED <<storeVars, viewVars, uiVars, data, indicators, performance, loading, error, inflight>>

\* setPerformance also dropping the dataset the backtest was run on.
runBacktest_setPerformance_clearingData ==
    /\ At("runBacktest", "setPerformance")
    /\ performance' = (IF Truthy(running.resp.performance)
                       THEN running.resp.performance ELSE NULL)
    /\ data' = NULL
    /\ Goto("finally")
    /\ UNCHANGED <<storeVars, viewVars, uiVars, indicators, trades, loading, error, inflight>>

\* setPerformance(results.performance || null); return results
runBacktest_setPerformance ==
    /\ At("runBacktest", "setPerformance")
    /\ performance' = (IF Truthy(running.resp.performance)
                       THEN running.resp.performance ELSE NULL)
    /\ Goto("finally")
    /\ UNCHANGED <<storeVars, viewVars, uiVars, data, indicators, trades, loading, error, inflight>>

\* The catch block also dropping the previous backtest.
runBacktest_catch_clearing ==
    /\ At("runBacktest", "resume")
    /\ ~Succeeds(running)
    /\ error' = ErrorText(running)
    /\ trades' = NULL
    /\ performance' = NULL
    /\ running' = [running EXCEPT !.pc = "finally", !.thrown = TRUE]
    /\ completed' = NoneCompleted
    /\ UNCHANGED <<storeVars, viewVars, uiVars, data, indicators, loading, inflight>>

\* catch (err) { setError(...); throw err }
runBacktest_catch ==
    /\ At("runBacktest", "resume")
    /\ ~Succeeds(running)
    /\ error' = ErrorText(running)
    /\ running' = [running EXCEPT !.pc = "finally", !.thrown = TRUE]
    /\ completed' = NoneCompleted
    /\ UNCHANGED <<storeVars, viewVars, uiVars, data, indicators, trades, performance, loading, inflight>>

\* The finally block leaving loading as it is.
runBacktest_finally_keepsLoading ==
    /\ At("runBacktest", "finally")
    /\ Finish(running, running.thrown, IF running.thrown THEN NULL ELSE "results")
    /\ UNCHANGED <<storeVars, viewVars, uiVars, hookVars, inflight>>

\* finally { setLoading(false) }
runBacktest_finally ==
    /\ At("runBacktest", "finally")
    /\ loading' = FALSE
    /\ Finish(running, running.thrown, IF running.thrown THEN NULL ELSE "results")
    /\ UNCHANGED <<storeVars, viewVars, uiVars, data, indicators, trades, performance, error, inflight>>

\* startRealTimeStream / stopRealTimeStream --------------------------------

\* await axios.post('/api/stream/start', ...)
startRealTimeStream_call ==
    /\ CanSend
    /\ Send("startRealTimeStream")
    /\ completed' = NoneCompleted
    /\ UNCHANGED <<storeVars, viewVars, uiVars, hookVars, running>>

\* return response.data
startRealTimeStream_return ==
    /\ At("startRealTimeStream", "resume")
    /\ Succeeds(running)
    /\ Finish(running, FALSE, "response.data")
    /\ UNCHANGED <<storeVars, viewVars, uiVars, hookVars, inflight>>

\* The catch block re-throwing without recording the error, as checkHealth does.
startRealTimeStream_catch_silent ==
    /\ At("startRealTimeStream", "resume")
    /\ ~Succeeds(running)
    /\ Finish(running, TRUE, NULL)
    /\ UNCHANGED <<storeVars, viewVars, uiVars, hookVars, inflight>>

\* catch (err) { setError(...); throw err }
startRealTimeStream_catch ==
    /\ At("startRealTimeStream", "resume")
    /\ ~Succeeds(running)
    /\ error' = ErrorText(running)
    /\ Finish(running, TRUE, NULL)
    /\ UNCHANGED <<storeVars, viewVars, uiVars, data, indicators, trades, performance, loading, inflight>>

\* await axios.post('/api/stream/stop')
stopRealTimeStream_call ==
    /\ CanSend
    /\ Send("stopRealTimeStream")
    /\ completed' = NoneCompleted
    /\ UNCHANGED <<storeVars, viewVars, uiVars, hookVars, running>>

\* return response.data
stopRealTimeStream_return ==
    /\ At("stopRealTimeStream", "resume")
    /\ Succeeds(running)
    /\ Finish(running, FALSE, "response.data")
    /\ UNCHANGED <<storeVars, viewVars, uiVars, hookVars, inflight>>

\* catch (err) { setError(...); throw err }
stopRealTimeStream_catch ==
    /\ At("stopRealTimeStream", "resume")
    /\ ~Succeeds(running)
    /\ error' = ErrorText(running)
    /\ Finish(running, TRUE, NULL)
    /\ UNCHANGED <<storeVars, viewVars, uiVars, data, indicators, trades, performance, loading, inflight>>

\* checkHealth -------------------------------------------------------------

\* await axios.get('/api/health')
checkHealth_call ==
    /\ CanSend
    /\ Send("checkHealth")
    /\ completed' = NoneCompleted
    /\ UNCHANGED <<storeVars, viewVars, uiVars, hookVars, running>>

\* return response.data
checkHealth_return ==
    /\ At("checkHealth", "resume")
    /\ Succeeds(running)
    /\ Finish(running, FALSE, "response.data")
    /\ UNCHANGED <<storeVars, viewVars, uiVars, hookVars, inflight>>

\* catch (err) { throw err }
checkHealth_catch ==
    /\ At("checkHealth", "resume")
    /\ ~Succeeds(running)
    /\ Finish(running, TRUE, NULL)
    /\ UNCHANGED <<storeVars, viewVars, uiVars, hookVars, inflight>>

\* getSymbols / getIntervals -----------------------------------------------

\* await axios.get('/api/symbols')
getSymbols_call ==
    /\ CanSend
    /\ Send("getSymbols")
    /\ completed' = NoneCompleted
    /\ UNCHANGED <<storeVars, viewVars, uiVars, hookVars, running>>

\* return response.data.symbols || []
getSymbols_return ==
    /\ At("getSymbols", "resume")
    /\ Succeeds(running)
    /\ Finish(running, FALSE, IF Truthy(running.resp.list) THEN running.resp.list ELSE "[]")
    /\ UNCHANGED <<storeVars, viewVars, uiVars, hookVars, inflight>>

\* The catch block recording the error, as the data-bearing calls do.
getSymbols_catch_setsError ==
    /\ At("getSymbols", "resume")
    /\ ~Succeeds(running)
    /\ error' = (IF Truthy(Caught(running).message) THEN Caught(running).message
                 ELSE "Failed to fetch symbols")
    /\ Finish(running, FALSE, "[]")
    /\ UNCHANGED <<storeVars, viewVars, uiVars, data, indicators, trades, performance, loading, inflight>>

\* catch (err) { return [] }
getSymbols_catch ==
    /\ At("getSymbols", "resume")
    /\ ~Succeeds(running)
    /\ Finish(running, FALSE, "[]")
    /\ UNCHANGED <<storeVars, viewVars, uiVars, hookVars, inflight>>

\* await axios.get('/api/intervals')
getIntervals_call ==
    /\ CanSend
    /\ Send("getIntervals")
    /\ completed' = NoneCompleted
    /\ UNCHANGED <<storeVars, viewVars, uiVars, hookVars, running>>

\* return response.data.intervals || []
getIntervals_return ==
    /\ At("getIntervals", "resume")
    /\ Succeeds(running)
    /\ Finish(running, FALSE, IF Truthy(running.resp.list) THEN running.resp.list ELSE "[]")
    /\ UNCHANGED <<storeVars, viewVars, uiVars, hookVars, inflight>>

\* catch (err) { return [] }
getIntervals_catch ==
    /\ At("getIntervals", "resume")
    /\ ~Succeeds(running)
    /\ Finish(running, FALSE, "[]")
    /\ UNCHANGED <<storeVars, viewVars, uiVars, hookVars, inflight>>

-----------------------------------------------------------------------------

\* useTradingData's useState initial values; nothing requested yet.
InitGateway ==
    /\ data = NULL
    /\ indicators = NULL
    /\ trades = NULL
    /\ performance = NULL
    /\ loading = FALSE
    /\ error = NULL
    /\ inflight = <<>>
    /\ running = NoCall
    /\ completed = NoneCompleted

\* Sidebar and TradingDashboard as first rendered, before the dashboard's
\* effect has run.
InitDashboard ==
    /\ sidebar = [k \in WindowFields |-> initialState[k]]
    /\ dashboard = [symbol |-> "ROSEUSDT", interval |-> "5m", daysBack |-> 7,
                    deps |-> <<>>]
    /\ requests = <<>>
    /\ clicks = 0

\* No pure function is under evaluation.
InitView ==
    /\ args = Absent
    /\ result = Absent

Init ==
    /\ state = initialState
    /\ lastAction = "none"
    /\ InitGateway
    /\ InitDashboard
    /\ InitView

\* Snapshots the store is in at some point of a session: fresh, and reloading
\* with a dataset, indicators and a backtest already held.
StoreSamples ==
    { initialState,
      SET_LOADING(SET_PERFORMANCE(SET_TRADES(SET_INDICATORS(
          SET_DATA(initialState, "d1"), "i1"), "t1"), "p1"), TRUE) }

InitFail ==
    /\ state \in StoreSamples
    /\ lastAction = "none"
    /\ InitGateway
    /\ InitDashboard
    /\ InitView

NextStore ==
    \/ setLoading
    \/ setError
    \/ setData
    \/ setIndicators
    \/ setTrades
    \/ setPerformance
    \/ setConnectionStatus
    \/ setLiveTrading
    \/ updateConfig
    \/ updateStrategyParams
    \/ clearData
    \/ unknownTrigger

\* The calls that write the snapshot, and the backend's answers.
NextDataStream ==
    \/ respond
    \/ fetchData_call
    \/ fetchData_await
    \/ fetchData_setData
    \/ fetchData_setIndicators
    \/ fetchData_catch
    \/ fetchData_finally
    \/ runBacktest_call
    \/ runBacktest_await
    \/ runBacktest_setTrades
    \/ runBacktest_setPerformance
    \/ runBacktest_catch
    \/ runBacktest_finally
    \/ startRealTimeStream_call
    \/ startRealTimeStream_return
    \/ startRealTimeStream_catch
    \/ stopRealTimeStream_call
    \/ stopRealTimeStream_return
    \/ stopRealTimeStream_catch

\* The metadata queries.
NextMetadata ==
    \/ checkHealth_call
    \/ checkHealth_return
    \/ checkHealth_catch
    \/ getSymbols_call
    \/ getSymbols_return
    \/ getSymbols_catch
    \/ getIntervals_call
    \/ getIntervals_return
    \/ getIntervals_catch

NextGateway ==
    \/ NextDataStream
    \/ NextMetadata

\* The TradingContext store under every sequence of its dispatchers.
SpecStore == Init /\ [][NextStore]_vars

\* The useTradingData gateway under every interleaving of its calls and of the
\* backend's answers.
SpecGateway == Init /\ [][NextGateway]_vars

NextFail ==
    \/ NextDataStream
    \/ setError

\* The snapshot-writing calls together with the store's setError, the store
\* starting from one of StoreSamples.
SpecFail == InitFail /\ [][NextFail]_vars

-----------------------------------------------------------------------------
DataCalls == {"fetchData", "runBacktest"}
StreamCalls == {"startRealTimeStream", "stopRealTimeStream"}
ListCalls == {"getSymbols", "getIntervals"}

\* A step of the code that handles a failed call, from its catch block on.
FailureStep ==
    /\ running.pc \in {"resume", "finally"}
    /\ ~Succeeds(running)

\* C1 (as stated): after every store transition, loading and a non-null error
\* never hold together.
C1_LoadingErrorExclusive ==
    ~(state.loading = TRUE /\ state.error # NULL)

\* C2 (as stated): whenever no call is part-way through its synchronous code,
\* loading and a non-null error do not hold together in the gateway's snapshot.
C2_ExclusiveAtRest ==
    Idle => ~(loading /\ error # NULL)

\* C3: no step that handles a failed gateway call changes data, indicators,
\* trades or performance, and neither does the store's SET_ERROR transition.
C3_FailureKeepsData ==
    [][ /\ FailureStep => UNCHANGED <<data, indicators, trades, performance>>
        /\ setError => \A k \in DataFields : state'[k] = state[k] ]_vars

C3_Witness ==
    /\ completed.op = "runBacktest"
    /\ completed.resp.kind = "domain"
    /\ completed.thrown
    /\ error = "insufficient data"
    /\ trades = "t1"
    /\ performance = "p1"
    /\ lastAction = "SET_ERROR"
    /\ state.error = "e1"
    /\ state.data = "d1"
    /\ state.trades = "t1"

\* C4 (as stated): right after a fetchData call completes successfully, the
\* snapshot holds the returned dataset and indicators, loading is false and
\* error is null.
C4_FetchSuccessSnapshot ==
    (completed.op = "fetchData" /\ Succeeds(completed)) =>
        /\ data = completed.resp.data
        /\ indicators = completed.resp.indicators
        /\ loading = FALSE
        /\ error = NULL

\* C5 (as stated): a { success: false } answer to a data or stream call ends
\* with loading false and with error the answer's error text when it carries
\* one, else the call's default message; never null.
C5_DomainFailureMessage ==
    (completed.op \in DataCalls \cup StreamCalls /\ completed.resp.kind = "domain") =>
        /\ loading = FALSE
        /\ error # NULL
        /\ error = IF Truthy(completed.resp.error) THEN completed.resp.error
                   ELSE DefaultMessage(completed.op)

\* C6: clear nulls data, indicators, trades, performance and error and leaves
\* loading, the connection flags and every configuration field as they were.
C6_ClearFrame ==
    [][ clearData =>
          /\ \A k \in DataFields \cup {"error"} : state'[k] = NULL
          /\ DOMAIN state' = DOMAIN state
          /\ \A k \in Fields \ (DataFields \cup {"error"}) : state'[k] = state[k] ]_vars

C6_Witness ==
    /\ lastAction = "CLEAR_DATA"
    /\ state.loading = TRUE
    /\ state.isConnected = TRUE
    /\ state.isLiveTrading = TRUE
    /\ state.symbol = "BTCUSDT"
    /\ state.takeProfit = 3
    /\ \A k \in DataFields \cup {"error"} : state[k] = NULL

\* C7: a trigger of a type the reducer does not list leaves every field of the
\* state as it was.
C7_UnknownIsNoOp ==
    [][ lastAction' \in UnknownTypes => state' = state ]_vars

C7_Witness ==
    /\ lastAction \in UnknownTypes
    /\ state.loading = TRUE
    /\ state.data = "d1"
    /\ state.daysBack = 30

\* C8: when a successful fetchData completes after another fetchData that it
\* overlapped was answered successfully, data and indicators are those of the
\* answer applied last, also when that answer belongs to the older request.
C8_LastResolvedWins ==
    (completed.op = "fetchData" /\ Succeeds(completed) /\ completed.after # "none") =>
        /\ data = completed.resp.data
        /\ indicators = completed.resp.indicators

C8_Witness ==
    /\ completed.op = "fetchData"
    /\ Succeeds(completed)
    /\ completed.after = "younger"
    /\ data = "d1"
    /\ indicators = "i1"

\* C9: getSymbols and getIntervals never change the snapshot, never throw, and
\* return the empty list when the request fails or the answer has no list.
C9_ListsDegradeToEmpty ==
    [][ /\ ( \/ getSymbols_call \/ getSymbols_return \/ getSymbols_catch
             \/ getIntervals_call \/ getIntervals_return \/ getIntervals_catch )
           => UNCHANGED hookVars
        /\ completed'.op \in ListCalls =>
             /\ ~completed'.thrown
             /\ (~Succeeds(completed') \/ ~Truthy(completed'.resp.list))
                   => completed'.ret = "[]" ]_vars

C9_Witness ==
    /\ completed.op = "getSymbols"
    /\ completed.resp.kind = "thrown"
    /\ completed.ret = "[]"
    /\ ~completed.thrown
    /\ loading = TRUE
    /\ error = NULL

\* C10 (as stated): fetchData, runBacktest, startRealTimeStream,
\* stopRealTimeStream and checkHealth each leave a non-null error in the
\* snapshot when they fail.
C10_AllRecordError ==
    ( /\ completed.op \in DataCalls \cup StreamCalls \cup {"checkHealth"}
      /\ ~Succeeds(completed) ) => error # NULL

\* C10 (amended): fetchData, runBacktest, startRealTimeStream and
\* stopRealTimeStream each leave a non-null error in the snapshot when they
\* fail; a failed checkHealth is thrown to its caller and changes nothing.
C10_DataAndStreamRecordError ==
    [][ /\ ( /\ completed'.op \in DataCalls \cup StreamCalls
             /\ ~Succeeds(completed') ) => error' # NULL
        /\ checkHealth_catch => (completed'.thrown /\ UNCHANGED hookVars) ]_vars

C10_Witness ==
    /\ completed.op = "stopRealTimeStream"
    /\ completed.resp.kind = "thrown"
    /\ completed.thrown
    /\ error = "Network Error"

(***************************************************************************)
(* The chart builders (src/unnamed/part_000): pure functions of the props  *)
(* the dashboard hands them.                                               *)
(***************************************************************************)

MaxBars == 3
MaxTrades == 2

\* Date strings as the backend sends them.  Bars open every five minutes;
\* trades carry seconds, so "09:05:00" and "09:05" name the same instant.
BarDates == {"09:00", "09:05", "09:10", "09:15"}
TradeDates == {"08:55:00", "09:05:00", "09:07:30", "09:10:00", "09:20:00"}

\* new Date(s).getTime(): milliseconds since midnight of the trading day.
getTime(s) ==
    CASE s = "08:55:00" -> 32100000
      [] s = "09:00" -> 32400000
      [] s \in {"09:05", "09:05:00"} -> 32700000
      [] s = "09:07:30" -> 32850000
      [] s \in {"09:10", "09:10:00"} -> 33000000
      [] s = "09:15" -> 33300000
      [] s = "09:20:00" -> 33600000

\* Timestamp arrays of the backend: one entry per bar, oldest first.
Timestamps ==
    { s \in UNION { [1..n -> BarDates] : n \in 0..MaxBars } :
        \A i \in 1..(Len(s) - 1) : getTime(s[i]) < getTime(s[i + 1]) }

\* ---- MACDChart ----

MacdValues == {-2, 1}
SignalLevel == 1

\* indicators.macd of a fetch response: the histogram is MACD minus signal.
MacdSeries ==
    { [timestamps |-> ts, values |-> vs,
       signal |-> [i \in 1..Len(ts) |-> SignalLevel],
       histogram |-> [i \in 1..Len(ts) |-> vs[i] - SignalLevel]] :
        <<ts, vs>> \in { p \in Timestamps \X UNION { [1..n -> MacdValues] : n \in 0..MaxBars } :
                           Len(p[1]) = Len(p[2]) } }

\* The trades prop as far as MACDChart reads it.
MacdTrades ==
    UNION { [1..n -> [entry_date : TradeDates]] : n \in 0..MaxTrades }

\* Props of MACDChart: indicators null, without macd, or with it; trades null
\* (no backtest yet) or a list.
MacdProps ==
    [indicators : {Absent, Present([macd |-> Absent])}
                    \cup { Present([macd |-> Present(m)]) : m \in MacdSeries },
     trades : {Absent} \cup { Present(t) : t \in MacdTrades }]

\* The findIndex predicate: the bar is at or after the trade's entry.
entryMatches_strict(timestamp, trade) ==
    getTime(timestamp) > getTime(trade.entry_date)

entryMatches(timestamp, trade) ==
    getTime(timestamp) >= getTime(trade.entry_date)

\* timestamps.findIndex(...), scanning from 0-based index i; -1 when no
\* element matches.
RECURSIVE findIndex(_, _, _)
findIndex(timestamps, trade, i) ==
    IF i >= Len(timestamps) THEN -1
    ELSE IF entryMatches(timestamps[i + 1], trade) THEN i
    ELSE findIndex(timestamps, trade, i + 1)

\* The null a trade maps to when no bar matches.
NullPoint == [null |-> TRUE]

\* Boolean(p) of .filter(Boolean): objects are truthy, null is not.
Boolean(p) == p # NullPoint

crossoverPoints(macd, tradeList) ==
    LET point(trade) ==
            LET entryIndex == findIndex(macd.timestamps, trade, 0)
            IN  IF entryIndex >= 0
                THEN [x |-> trade.entry_date, y |-> macd.values[entryIndex + 1]]
                ELSE NullPoint
    IN  SelectSeq([k \in 1..Len(tradeList) |-> point(tradeList[k])], Boolean)

histogramColors(histogram) ==
    LET color(val) == IF val >= 0 THEN "#00ff88" ELSE "#ff4976"
    IN  [k \in 1..Len(histogram) |-> color(histogram[k])]

\* The useMemo body of MACDChart.
MACDChart_chartData(props) ==
    IF IsNull(props.indicators) \/ IsNull(Deref(props.indicators).macd)
    THEN <<>>
    ELSE
        LET macd == Deref(Deref(props.indicators).macd)
            lines ==
                << [x |-> macd.timestamps, y |-> macd.values,
                    type |-> "scatter", mode |-> "lines", name |-> "MACD"],
                   [x |-> macd.timestamps, y |-> macd.signal,
                    type |-> "scatter", mode |-> "lines", name |-> "Signal"],
                   [x |-> macd.timestamps, y |-> macd.histogram,
                    type |-> "bar", name |-> "Histogram",
                    color |-> histogramColors(macd.histogram)] >>
            points ==
                IF ~IsNull(props.trades) /\ Len(Deref(props.trades)) > 0
                THEN crossoverPoints(macd, Deref(props.trades))
                ELSE <<>>
        IN  IF Len(points) > 0
            THEN lines \o << [x |-> [k \in 1..Len(points) |-> points[k].x],
                              y |-> [k \in 1..Len(points) |-> points[k].y],
                              type |-> "scatter", mode |-> "markers",
                              name |-> "MACD Crossover"] >>
            ELSE lines

\* MACDChart is rendered with the props held in args.
MACDChart ==
    /\ ~IsNull(args)
    /\ IsNull(result)
    /\ result' = Present(MACDChart_chartData(Deref(args)))
    /\ UNCHANGED <<storeVars, gatewayVars, uiVars, args>>

InitMacd ==
    /\ state = initialState
    /\ lastAction = "none"
    /\ InitGateway
    /\ InitDashboard
    /\ args \in { Present(p) : p \in MacdProps }
    /\ result = Absent

NextMacd == MACDChart

SpecMacd == InitMacd /\ [][NextMacd]_vars

\* The crossover markers of a rendered oscillator view, as (x, y) points.
MacdMarkers ==
    LET traces == Deref(result)
    IN  IF Len(traces) > 3
        THEN [k \in 1..Len(traces[4].x) |-> [x |-> traces[4].x[k], y |-> traces[4].y[k]]]
        ELSE <<>>

\* C11: in the oscillator view, over strictly increasing timestamps, the
\* markers are, in the trades' order, exactly the trades entering at or before
\* the last bar, each at the oscillator value of the first bar at or after
\* its entry; a trade entering after the last bar leaves no marker.
C11_CrossoverAlignment ==
    (/\ ~IsNull(args) /\ ~IsNull(result)
     /\ ~IsNull(Deref(args).indicators)
     /\ ~IsNull(Deref(Deref(args).indicators).macd)
     /\ ~IsNull(Deref(args).trades))
    =>
    LET macd == Deref(Deref(Deref(args).indicators).macd)
        ts == macd.timestamps
        covered(trade) ==
            Len(ts) > 0 /\ getTime(trade.entry_date) <= getTime(ts[Len(ts)])
        kept == SelectSeq(Deref(Deref(args).trades), covered)
        bar(trade) ==
            CHOOSE i \in 1..Len(ts) :
                /\ getTime(ts[i]) >= getTime(trade.entry_date)
                /\ \A j \in 1..Len(ts) :
                       getTime(ts[j]) >= getTime(trade.entry_date) => i <= j
    IN  /\ Len(MacdMarkers) = Len(kept)
        /\ \A k \in 1..Len(kept) :
               /\ MacdMarkers[k].x = kept[k].entry_date
               /\ MacdMarkers[k].y = macd.values[bar(kept[k])]

\* A view where one trade enters exactly on a bar that is not the first one
\* and keeps its marker while a later trade, past the last bar, is dropped.
C11_Witness ==
    /\ ~IsNull(args) /\ ~IsNull(result)
    /\ ~IsNull(Deref(args).indicators)
    /\ ~IsNull(Deref(Deref(args).indicators).macd)
    /\ ~IsNull(Deref(args).trades)
    /\ LET macd == Deref(Deref(Deref(args).indicators).macd)
           trs == Deref(Deref(args).trades)
       IN  /\ Len(trs) = 2
           /\ Len(macd.timestamps) >= 2
           /\ getTime(trs[1].entry_date) = getTime(macd.timestamps[2])
           /\ macd.values[1] # macd.values[2]
           /\ getTime(trs[2].entry_date) > getTime(macd.timestamps[Len(macd.timestamps)])
           /\ Len(MacdMarkers) = 1
           /\ MacdMarkers[1].y = macd.values[2]

\* ---- CandlestickChart ----

\* Numbers with a fractional part (prices, returns) are held in millionths:
\* the integer n stands for n / 1000000.

\* Rows of data.ohlcv.
Candles ==
    { [Open |-> 71200, High |-> 71900, Low |-> 71000, Close |-> 71800],
      [Open |-> 71800, High |-> 71800, Low |-> 70500, Close |-> 70600] }

\* The data prop of a fetch response: one ohlcv row per timestamp.
Datasets ==
    { [timestamps |-> p[1], ohlcv |-> p[2]] :
        p \in { q \in Timestamps \X UNION { [1..n -> Candles] : n \in 0..MaxBars } :
                  Len(q[1]) = Len(q[2]) } }

\* indicators.ema_200 as the backend sends it: empty while there are too few
\* bars, otherwise one value per timestamp.
EmaSeries ==
    { [timestamps |-> <<>>, values |-> <<>>],
      [timestamps |-> <<"09:05", "09:10">>, values |-> <<71500, 71400>>] }

\* Trades of a backtest response: a take-profit, a stop-loss, a break-even
\* exit, and two signal exits whose returns need rounding.
Trades ==
    { [entry_date |-> "09:05:00", entry_price |-> 71500,
       exit_date |-> "09:10:00", exit_price |-> 72930,
       return_pct |-> 20000, exit_reason |-> "take_profit"],
      [entry_date |-> "09:07:30", entry_price |-> 71000,
       exit_date |-> "09:10:00", exit_price |-> 70077,
       return_pct |-> -13000, exit_reason |-> "stop_loss"],
      [entry_date |-> "08:55:00", entry_price |-> 71200,
       exit_date |-> "09:05:00", exit_price |-> 71200,
       return_pct |-> 0, exit_reason |-> "signal"],
      [entry_date |-> "09:10:00", entry_price |-> 70600,
       exit_date |-> "09:20:00", exit_price |-> 71474,
       return_pct |-> 12378, exit_reason |-> "signal"],
      [entry_date |-> "09:05:00", entry_price |-> 71800,
       exit_date |-> "09:07:30", exit_price |-> 71797,
       return_pct |-> -49, exit_reason |-> "end_of_data"] }

TradeLists == UNION { [1..n -> Trades] : n \in 0..MaxTrades }

\* Props of CandlestickChart, as far as chartData reads them.
CandlestickProps ==
    [data : {Absent} \cup { Present(d) : d \in Datasets },
     indicators : {Absent, Present([ema_200 |-> Absent])}
                    \cup { Present([ema_200 |-> Present(e)]) : e \in EmaSeries },
     trades : {Absent} \cup { Present(t) : t \in TradeLists }]

\* x * 100 on a number held in millionths.
Times100(x) == x * 100

\* x.toFixed(2) on a number held in millionths: the sign, then the nearest
\* number of hundredths of |x| written with at least one integer digit and
\* exactly two decimals.
toFixed2(x) ==
    LET a == IF x < 0 THEN -x ELSE x
        n == (a + 5000) \div 10000
        frac == n % 100
    IN  (IF x < 0 THEN "-" ELSE "")
        \o ToString(n \div 100) \o "."
        \o (IF frac < 10 THEN "0" ELSE "") \o ToString(frac)

\* indicators.ema_200 && indicators.ema_200.values.length > 0
emaShown_unchecked(ind) ==
    ~IsNull(ind.ema_200)

emaShown(ind) ==
    ~IsNull(ind.ema_200) /\ Len(Deref(ind.ema_200).values) > 0

\* The points keep x and y only on their way into the trace.
entryPoints(tradeList) ==
    LET point(trade) == [x |-> trade.entry_date, y |-> trade.entry_price]
    IN  [k \in 1..Len(tradeList) |-> point(tradeList[k])]

exitPoints(tradeList) ==
    LET point(trade) == [x |-> trade.exit_date, y |-> trade.exit_price,
                         return_pct |-> trade.return_pct,
                         exit_reason |-> trade.exit_reason]
    IN  [k \in 1..Len(tradeList) |-> point(tradeList[k])]

\* marker.color of one exit point.
exitColor_nonNegative(p) ==
    IF p.return_pct >= 0 THEN "#00ff88" ELSE "#ff4976"

exitColor(p) ==
    IF p.return_pct > 0 THEN "#00ff88" ELSE "#ff4976"

\* text of one exit point.
exitText(p) ==
    p.exit_reason \o "<br>Return: " \o toFixed2(Times100(p.return_pct)) \o "%"

\* The useMemo body of CandlestickChart.
CandlestickChart_chartData(props) ==
    IF IsNull(props.data) \/ IsNull(props.indicators)
    THEN <<>>
    ELSE
        LET d == Deref(props.data)
            ind == Deref(props.indicators)
            candlestick ==
                << [x |-> d.timestamps,
                    open |-> [k \in 1..Len(d.ohlcv) |-> d.ohlcv[k].Open],
                    high |-> [k \in 1..Len(d.ohlcv) |-> d.ohlcv[k].High],
                    low |-> [k \in 1..Len(d.ohlcv) |-> d.ohlcv[k].Low],
                    close |-> [k \in 1..Len(d.ohlcv) |-> d.ohlcv[k].Close],
                    type |-> "candlestick", name |-> "Price"] >>
            ema ==
                IF emaShown(ind)
                THEN << [x |-> Deref(ind.ema_200).timestamps,
                         y |-> Deref(ind.ema_200).values,
                         type |-> "scatter", mode |-> "lines", name |-> "200 EMA"] >>
                ELSE <<>>
            signals ==
                IF ~IsNull(props.trades) /\ Len(Deref(props.trades)) > 0
                THEN
                    LET entries == entryPoints(Deref(props.trades))
                        exits == exitPoints(Deref(props.trades))
                    IN  (IF Len(entries) > 0
                         THEN << [x |-> [k \in 1..Len(entries) |-> entries[k].x],
                                  y |-> [k \in 1..Len(entries) |-> entries[k].y],
                                  type |-> "scatter", mode |-> "markers",
                                  name |-> "Buy Signals"] >>
                         ELSE <<>>)
                        \o
                        (IF Len(exits) > 0
                         THEN << [x |-> [k \in 1..Len(exits) |-> exits[k].x],
                                  y |-> [k \in 1..Len(exits) |-> exits[k].y],
                                  type |-> "scatter", mode |-> "markers",
                                  name |-> "Exit Signals",
                                  color |-> [k \in 1..Len(exits) |-> exitColor(exits[k])],
                                  text |-> [k \in 1..Len(exits) |-> exitText(exits[k])]] >>
                         ELSE <<>>)
                ELSE <<>>
        IN  candlestick \o ema \o signals

\* CandlestickChart is rendered with the props held in args.
CandlestickChart ==
    /\ ~IsNull(args)
    /\ IsNull(result)
    /\ result' = Present(CandlestickChart_chartData(Deref(args)))
    /\ UNCHANGED <<storeVars, gatewayVars, uiVars, args>>

InitCandlestick ==
    /\ state = initialState
    /\ lastAction = "none"
    /\ InitGateway
    /\ InitDashboard
    /\ args \in { Present(p) : p \in CandlestickProps }
    /\ result = Absent

NextCandlestick == CandlestickChart

SpecCandlestick == InitCandlestick /\ [][NextCandlestick]_vars

\* The trades a rendered price view was given (none when the prop is null).
ViewTrades ==
    IF IsNull(Deref(args).trades) THEN <<>> ELSE Deref(Deref(args).trades)

\* The points of the trace of the given name in the rendered view, as
\* (x, y) pairs; <<>> when there is no such trace.
ViewMarkers(name) ==
    LET traces == Deref(result)
        at == { i \in 1..Len(traces) : traces[i].name = name }
    IN  IF at = {} THEN <<>>
        ELSE LET t == traces[CHOOSE i \in at : TRUE]
             IN  [k \in 1..Len(t.x) |-> [x |-> t.x[k], y |-> t.y[k]]]

\* The names of the rendered traces, in order.
ViewNames ==
    [i \in 1..Len(Deref(result)) |-> Deref(result)[i].name]

\* C12: the price view is empty without a dataset or without indicators;
\* otherwise it holds, in this order, the candlesticks of all N bars, the EMA
\* line exactly when the EMA series has a point, and one entry and one exit
\* marker per trade, the i-th of each placed by the i-th trade.
C12_PriceViewLayout ==
    (~IsNull(args) /\ ~IsNull(result)) =>
    LET props == Deref(args)
        traces == Deref(result)
    IN  IF IsNull(props.data) \/ IsNull(props.indicators)
        THEN traces = <<>>
        ELSE
            LET d == Deref(props.data)
                ema == Deref(props.indicators).ema_200
                hasEma == ~IsNull(ema) /\ Len(Deref(ema).values) >= 1
                M == Len(ViewTrades)
            IN  /\ ViewNames =
                       <<"Price">>
                       \o (IF hasEma THEN <<"200 EMA">> ELSE <<>>)
                       \o (IF M > 0 THEN <<"Buy Signals", "Exit Signals">> ELSE <<>>)
                /\ traces[1].type = "candlestick"
                /\ traces[1].x = d.timestamps
                /\ Len(traces[1].open) = Len(d.ohlcv)
                /\ \A i \in 1..Len(d.ohlcv) :
                       /\ traces[1].open[i] = d.ohlcv[i].Open
                       /\ traces[1].high[i] = d.ohlcv[i].High
                       /\ traces[1].low[i] = d.ohlcv[i].Low
                       /\ traces[1].close[i] = d.ohlcv[i].Close
                /\ Len(ViewMarkers("Buy Signals")) = M
                /\ Len(ViewMarkers("Exit Signals")) = M
                /\ \A i \in 1..M :
                       /\ ViewMarkers("Buy Signals")[i] =
                              [x |-> ViewTrades[i].entry_date,
                               y |-> ViewTrades[i].entry_price]
                       /\ ViewMarkers("Exit Signals")[i] =
                              [x |-> ViewTrades[i].exit_date,
                               y |-> ViewTrades[i].exit_price]

\* A price view of three bars with an EMA line and two different trades.
C12_Witness ==
    /\ ~IsNull(args) /\ ~IsNull(result)
    /\ ~IsNull(Deref(args).data)
    /\ ~IsNull(Deref(args).indicators)
    /\ Len(Deref(Deref(args).data).ohlcv) = 3
    /\ Len(ViewTrades) = 2
    /\ ViewTrades[1].entry_date # ViewTrades[2].entry_date
    /\ ViewTrades[1].exit_date # ViewTrades[2].exit_date
    /\ ViewNames = <<"Price", "200 EMA", "Buy Signals", "Exit Signals">>
    /\ Len(ViewMarkers("Exit Signals")) = 2

\* The colour and label of the i-th exit marker of the rendered price view.
ExitMarkerColor(i) ==
    LET traces == Deref(result) IN traces[Len(traces)].color[i]

ExitMarkerText(i) ==
    LET traces == Deref(result) IN traces[Len(traces)].text[i]

\* s contains sub as a substring.
Contains(s, sub) ==
    \E i \in 1..(Len(s) - Len(sub) + 1) : SubSeq(s, i, i + Len(sub) - 1) = sub

\* returnPct * 100 with two decimals and a percent sign, for the returns of
\* Trades.
PercentLabel(return_pct) ==
    CASE return_pct = 20000 -> "2.00%"
      [] return_pct = -13000 -> "-1.30%"
      [] return_pct = 0 -> "0.00%"
      [] return_pct = 12378 -> "1.24%"
      [] return_pct = -49 -> "-0.00%"

\* C13: an exit marker is a profit marker exactly when its trade's returnPct
\* is above 0 and a loss marker otherwise, zero included; its label contains
\* the exitReason and returnPct*100 with two decimals and a percent sign
\* (-0.013 with "stop_loss" gives a loss marker labelled with "stop_loss" and
\* "-1.30%").
C13_ExitMarkerClass ==
    (/\ ~IsNull(args) /\ ~IsNull(result)
     /\ Len(Deref(result)) > 0
     /\ Len(ViewTrades) > 0)
    =>
    \A i \in 1..Len(ViewTrades) :
        LET trade == ViewTrades[i]
        IN  /\ ExitMarkerColor(i) \in {"#00ff88", "#ff4976"}
            /\ ExitMarkerColor(i) = "#00ff88" <=> trade.return_pct > 0
            /\ Contains(ExitMarkerText(i), trade.exit_reason)
            /\ Contains(ExitMarkerText(i), PercentLabel(trade.return_pct))
            /\ (trade.return_pct = -13000 /\ trade.exit_reason = "stop_loss")
                   => /\ ExitMarkerColor(i) = "#ff4976"
                      /\ Contains(ExitMarkerText(i), "stop_loss")
                      /\ Contains(ExitMarkerText(i), "-1.30%")

\* A price view showing the stop-loss trade of -0.013 next to a break-even
\* trade.
C13_Witness ==
    /\ ~IsNull(args) /\ ~IsNull(result)
    /\ Len(Deref(result)) > 0
    /\ Len(ViewTrades) = 2
    /\ ViewTrades[1].return_pct = -13000
    /\ ViewTrades[1].exit_reason = "stop_loss"
    /\ ViewTrades[2].return_pct = 0
    /\ ExitMarkerColor(1) = "#ff4976"
    /\ ExitMarkerColor(2) = "#ff4976"
    /\ ExitMarkerText(1) = "stop_loss<br>Return: -1.30%"

(***************************************************************************)
(* PerformanceMetrics (components/PerformanceMetrics.js): the metric cards *)
(* and their classes.                                                      *)
(***************************************************************************)

\* The number whole + millionths / 1000000, held in millionths.
Num(whole, millionths) == whole * 1000000 + millionths

\* threshold = 0 of getMetricType's parameter list: the value used when the
\* argument is omitted.
DefaultThreshold == 0

getMetricType_inclusive(value, threshold) ==
    LET t == IF IsNull(threshold) THEN DefaultThreshold ELSE Deref(threshold)
    IN  IF value >= t THEN "positive"
        ELSE IF value < t THEN "negative"
        ELSE "neutral"

\* getMetricType(value, threshold = 0); an omitted threshold is Absent.
getMetricType(value, threshold) ==
    LET t == IF IsNull(threshold) THEN DefaultThreshold ELSE Deref(threshold)
    IN  IF value > t THEN "positive"
        ELSE IF value < t THEN "negative"
        ELSE "neutral"

\* Values and thresholds getMetricType is evaluated on: around each threshold
\* the component uses, from below, on it and from above.
MetricValues ==
    { Num(-5, 0), Num(0, -10000), Num(0, 0), Num(0, 10000), Num(0, 990000),
      Num(1, 0), Num(1, 500000), Num(5, 0), Num(45, 0), Num(50, 0),
      Num(50, 10000), Num(-10, 0) }

MetricThresholds ==
    { Absent, Present(Num(0, 0)), Present(Num(1, 0)), Present(Num(50, 0)),
      Present(Num(-10, 0)) }

\* One evaluation of getMetricType on the arguments held in args.
getMetricType_eval ==
    /\ ~IsNull(args)
    /\ IsNull(result)
    /\ result' = Present(getMetricType(Deref(args).value, Deref(args).threshold))
    /\ UNCHANGED <<storeVars, gatewayVars, uiVars, args>>

InitClassify ==
    /\ state = initialState
    /\ lastAction = "none"
    /\ InitGateway
    /\ InitDashboard
    /\ args \in { Present(a) : a \in [value : MetricValues, threshold : MetricThresholds] }
    /\ result = Absent

NextClassify == getMetricType_eval

SpecClassify == InitClassify /\ [][NextClassify]_vars

\* classify(v, t) was evaluated and returned class.
Classified(v, t, class) ==
    (/\ ~IsNull(args) /\ ~IsNull(result)
     /\ Deref(args).value = v
     /\ Deref(args).threshold = t)
    => Deref(result) = class

\* C14: classify(value, threshold) is positive exactly when value is above the
\* threshold, negative exactly when below, neutral exactly when equal, the
\* threshold being 0 when omitted; so classify(5,0) = positive,
\* classify(-5,0) = negative, classify(0,0) = neutral, classify(45,50) =
\* negative and classify(1.5,1) = positive.
C14_Classify ==
    /\ (~IsNull(args) /\ ~IsNull(result)) =>
          LET value == Deref(args).value
              threshold == IF IsNull(Deref(args).threshold) THEN 0
                           ELSE Deref(Deref(args).threshold)
          IN  /\ Deref(result) \in {"positive", "negative", "neutral"}
              /\ Deref(result) = "positive" <=> value > threshold
              /\ Deref(result) = "negative" <=> value < threshold
              /\ Deref(result) = "neutral" <=> value = threshold
    /\ Classified(Num(5, 0), Present(Num(0, 0)), "positive")
    /\ Classified(Num(-5, 0), Present(Num(0, 0)), "negative")
    /\ Classified(Num(0, 0), Present(Num(0, 0)), "neutral")
    /\ Classified(Num(0, 0), Absent, "neutral")
    /\ Classified(Num(45, 0), Present(Num(50, 0)), "negative")
    /\ Classified(Num(1, 500000), Present(Num(1, 0)), "positive")

\* classify(50, 50) has been evaluated.
C14_Witness ==
    /\ ~IsNull(args) /\ ~IsNull(result)
    /\ Deref(args).value = Num(50, 0)
    /\ Deref(args).threshold = Present(Num(50, 0))
    /\ Deref(result) = "neutral"

\* The performance object of a backtest response.  Percentages and the
\* Sharpe ratio are held in millionths, counters are plain integers.
Performances ==
    [total_return : {Num(-2, -500000), Num(0, 0), Num(5, 0)},
     win_rate : {Num(45, 0), Num(50, 0), Num(62, 500000)},
     sharpe_ratio : {Num(0, 800000), Num(1, 0), Num(1, 500000)},
     average_return : {Num(0, -100000), Num(0, 0), Num(0, 350000)},
     max_drawdown : {Num(-5, -200000), Num(0, 0), Num(9, 990000), Num(10, 0),
                     Num(10, 10000)},
     best_trade : {Num(2, 0)},
     worst_trade : {Num(-1, -300000)},
     total_trades : {8},
     winning_trades : {5},
     losing_trades : {3},
     take_profit_hits : {4},
     stop_loss_hits : {3}]

\* formatPercent
formatPercent(value) == toFixed2(value) \o "%"

\* formatNumber
formatNumber(value) == ToString(value)

\* -performance.max_drawdown, -10: the arguments of the Max Drawdown card.
drawdownType_unnegated(perf) ==
    getMetricType(perf.max_drawdown, Present(Num(10, 0)))

drawdownType(perf) ==
    getMetricType(-perf.max_drawdown, Present(Num(-10, 0)))

\* What PerformanceMetrics renders: the placeholder without a performance
\* object, otherwise the summary stats and the metric cards, each with the
\* type prop of its value ("none" when no type is passed) and its text.
PerformanceMetrics_render(props) ==
    IF IsNull(props.performance)
    THEN [view |-> "No performance data available"]
    ELSE
        LET perf == Deref(props.performance)
            totalReturn == [type |-> getMetricType(perf.total_return, Absent),
                            text |-> formatPercent(perf.total_return)]
            winRate == [type |-> getMetricType(perf.win_rate, Present(Num(50, 0))),
                        text |-> formatPercent(perf.win_rate)]
            totalTrades == [type |-> "none", text |-> formatNumber(perf.total_trades)]
            sharpe == [type |-> getMetricType(perf.sharpe_ratio, Present(Num(1, 0))),
                       text |-> toFixed2(perf.sharpe_ratio)]
        IN  [view |-> "metrics",
             summary |->
                 [TotalReturn |-> totalReturn, WinRate |-> winRate,
                  TotalTrades |-> totalTrades, SharpeRatio |-> sharpe],
             cards |->
                 [TotalReturn |-> totalReturn,
                  WinRate |-> winRate,
                  TotalTrades |-> totalTrades,
                  WinningTrades |-> [type |-> "positive",
                                     text |-> formatNumber(perf.winning_trades)],
                  LosingTrades |-> [type |-> "negative",
                                    text |-> formatNumber(perf.losing_trades)],
                  AvgReturn |-> [type |-> getMetricType(perf.average_return, Absent),
                                 text |-> formatPercent(perf.average_return)],
                  BestTrade |-> [type |-> "positive",
                                 text |-> formatPercent(perf.best_trade)],
                  WorstTrade |-> [type |-> "negative",
                                  text |-> formatPercent(perf.worst_trade)],
                  MaxDrawdown |-> [type |-> drawdownType(perf),
                                   text |-> formatPercent(perf.max_drawdown)],
                  TakeProfits |-> [type |-> "none",
                                   text |-> formatNumber(perf.take_profit_hits)],
                  StopLosses |-> [type |-> "none",
                                  text |-> formatNumber(perf.stop_loss_hits)],
                  SharpeRatio |-> sharpe]]

\* PerformanceMetrics is rendered with the props held in args.
PerformanceMetrics ==
    /\ ~IsNull(args)
    /\ IsNull(result)
    /\ result' = Present(PerformanceMetrics_render(Deref(args)))
    /\ UNCHANGED <<storeVars, gatewayVars, uiVars, args>>

InitMetrics ==
    /\ state = initialState
    /\ lastAction = "none"
    /\ InitGateway
    /\ InitDashboard
    /\ args \in {Present([performance |-> Absent])}
                 \cup { Present([performance |-> Present(p)]) : p \in Performances }
    /\ result = Absent

NextMetrics == PerformanceMetrics

SpecMetrics == InitMetrics /\ [][NextMetrics]_vars

TradingDashboard_render ==
    IF loading
    THEN [view |-> "loading"]
    ELSE IF Truthy(error)
    THEN [view |-> "error", message |-> error, retry |-> "fetchData"]
    ELSE [view |-> "charts",
          candlestick |-> Truthy(data) /\ Truthy(indicators),
          macd |-> Truthy(indicators),
          metrics |-> Truthy(performance)]

\* C16: whenever the snapshot holds an error, the dashboard shows the error
\* view (message and Retry) and neither the loading view nor the charts.
C16_ErrorViewShown ==
    (Idle /\ error # NULL) =>
        /\ TradingDashboard_render.view = "error"
        /\ TradingDashboard_render.message = error

(***************************************************************************)
(* The request body runBacktest posts (part_002, lines 48-58).             *)
(***************************************************************************)

\* config.<field> || fallback for a numeric field: undefined, 0 and NaN are
\* falsy; only undefined and 0 occur among the inputs.
NumberOr(field, fallback) ==
    IF ~IsNull(field) /\ Deref(field) # 0 THEN Deref(field) ELSE fallback

\* config.timezone || 'Asia/Singapore'
StringOr(field, fallback) ==
    IF ~IsNull(field) /\ Truthy(Deref(field)) THEN Deref(field) ELSE fallback

\* The object literal passed to axios.post.
runBacktest_body(symbol, interval, config) ==
    [symbol |-> symbol,
     interval |-> interval,
     days_back |-> NumberOr(config.days_back, 7),
     timezone |-> StringOr(config.timezone, "Asia/Singapore"),
     take_profit |-> NumberOr(config.take_profit, Num(0, 20000)),
     stop_loss |-> NumberOr(config.stop_loss, Num(0, 10000)),
     fast_length |-> NumberOr(config.fast_length, 12),
     slow_length |-> NumberOr(config.slow_length, 26),
     signal_smoothing |-> NumberOr(config.signal_smoothing, 9)]

\* The config argument: every field left out, supplied as 0, or supplied
\* with a value other than its default.
Configs ==
    [days_back : {Absent, Present(0), Present(30)},
     timezone : {Absent, Present("UTC")},
     take_profit : {Absent, Present(0), Present(Num(0, 50000))},
     stop_loss : {Absent, Present(0), Present(Num(0, 25000))},
     fast_length : {Absent, Present(0), Present(8)},
     slow_length : {Absent, Present(0), Present(21)},
     signal_smoothing : {Absent, Present(0), Present(5)}]

\* runBacktest builds the body of its POST from the arguments held in args.
runBacktest_post ==
    /\ ~IsNull(args)
    /\ IsNull(result)
    /\ result' = Present(runBacktest_body(Deref(args).symbol, Deref(args).interval,
                                          Deref(args).config))
    /\ UNCHANGED <<storeVars, gatewayVars, uiVars, args>>

InitBody ==
    /\ state = initialState
    /\ lastAction = "none"
    /\ InitGateway
    /\ InitDashboard
    /\ args \in { Present([symbol |-> "ROSEUSDT", interval |-> "5m", config |-> c]) :
                    c \in Configs }
    /\ result = Absent

NextBody == runBacktest_post

SpecBody == InitBody /\ [][NextBody]_vars

\* The six numeric fields of the body with their defaults.
BodyDefaults ==
    [days_back |-> 7, take_profit |-> Num(0, 20000), stop_loss |-> Num(0, 10000),
     fast_length |-> 12, slow_length |-> 26, signal_smoothing |-> 9]

\* C17: in the body runBacktest posts, each of days_back, take_profit,
\* stop_loss, fast_length, slow_length and signal_smoothing is the value
\* supplied in config when the field is supplied, and its default (7, 0.02,
\* 0.01, 12, 26, 9) when the field is absent.
C17_BodyDefaults ==
    (~IsNull(args) /\ ~IsNull(result)) =>
    \A f \in DOMAIN BodyDefaults :
        LET supplied == Deref(args).config[f]
        IN  IF IsNull(supplied)
            THEN Deref(result)[f] = BodyDefaults[f]
            ELSE Deref(result)[f] = Deref(supplied)

\* A runBacktest call finishes in this step without throwing.
BacktestSucceeds ==
    completed'.op = "runBacktest" /\ ~completed'.thrown

\* A step of runBacktest's continuation: from the arrival of its response to
\* the end of its finally block.
BacktestStep ==
    running.op = "runBacktest" \/ running'.op = "runBacktest"

\* C18 as stated: when runBacktest completes successfully the snapshot holds
\* the response's trades and the response's performance, loading is false,
\* and data and indicators are what they were before the completion.
C18_BacktestSuccessSnapshot ==
    [][ /\ BacktestSucceeds =>
            /\ trades' = completed'.resp.trades
            /\ performance' = completed'.resp.performance
            /\ loading' = FALSE
        /\ BacktestStep => UNCHANGED <<data, indicators>> ]_vars

\* C18 amended: when runBacktest completes successfully the snapshot holds
\* the response's trades, or the empty list when the response's results
\* carry none, and the response's performance, or null when there is none;
\* loading is false and data and indicators are unchanged.
C18_BacktestSuccessNormalised ==
    [][ /\ BacktestSucceeds =>
            /\ trades' = (IF completed'.resp.trades = NULL THEN "[]"
                          ELSE completed'.resp.trades)
            /\ performance' = completed'.resp.performance
            /\ loading' = FALSE
        /\ BacktestStep => UNCHANGED <<data, indicators>> ]_vars

\* A backtest whose results carry no trades has completed successfully over
\* a loaded dataset.
C18_Witness ==
    /\ completed.op = "runBacktest"
    /\ ~completed.thrown
    /\ completed.resp.trades = NULL
    /\ completed.resp.performance = "p1"
    /\ trades = "[]"
    /\ performance = "p1"
    /\ data = "d1"
    /\ indicators = "i1"
    /\ loading = FALSE

(***************************************************************************)
(* The snapshot-writing calls of the gateway with the scheduling of the    *)
(* JavaScript event loop: the synchronous code of a call or continuation,  *)
(* once entered, runs to its end, and the backend answers every fetchData  *)
(* and runBacktest request.                                                *)
(***************************************************************************)

\* The next statement of the call that is executing.
Continue == ~Idle /\ NextDataStream

\* The answer to a fetchData or runBacktest request arrives.
respondData == respond /\ running'.op \in DataCalls

SpecGatewayFair ==
    /\ Init
    /\ [][NextDataStream]_vars
    /\ WF_vars(Continue)
    /\ SF_vars(respondData)

\* A fetchData or runBacktest request is waiting for its answer.
DataInFlight ==
    \E i \in DOMAIN inflight : inflight[i].op \in DataCalls

\* C19: if every fetchData and runBacktest request is eventually answered,
\* loading eventually becomes false; and whenever no such request is in
\* flight and no continuation is pending, loading is false.
C19_LoadingClears ==
    /\ [](( ~DataInFlight /\ Idle ) => loading = FALSE)
    /\ (loading = TRUE) ~> (loading = FALSE)

\* A backtest has been rejected by the backend and has run to its end; no
\* fetchData or runBacktest request is left, a stream request still is.
C19_Witness ==
    /\ completed.op = "runBacktest"
    /\ completed.thrown
    /\ completed.resp.kind = "thrown"
    /\ ~DataInFlight
    /\ Idle
    /\ Len(inflight) > 0
    /\ loading = FALSE

(***************************************************************************)
(* fetchData and runBacktest of the gateway together with the store's      *)
(* clearData, over a store that is fresh or already loaded.                *)
(***************************************************************************)

NextSnapshot ==
    \/ respond
    \/ fetchData_call
    \/ fetchData_await
    \/ fetchData_setData
    \/ fetchData_setIndicators
    \/ fetchData_catch
    \/ fetchData_finally
    \/ runBacktest_call
    \/ runBacktest_await
    \/ runBacktest_setTrades
    \/ runBacktest_setPerformance
    \/ runBacktest_catch
    \/ runBacktest_finally
    \/ clearData

SpecSnapshot == InitFail /\ [][NextSnapshot]_vars

\* (data, indicators) as one successful fetch response leaves them.
FetchPairs ==
    { <<b.data, b.indicators>> : b \in DataBodies }

\* (trades, performance) as one successful backtest response leaves them:
\* missing trades are stored as the empty list, a missing performance as null.
BacktestPairs ==
    { <<IF Truthy(b.trades) THEN b.trades ELSE "[]", b.performance>> :
        b \in { r \in BacktestBodies : r.hasResults } }

StatusFields == Fields \ ConfigFields

ReducerStates ==
    { [k \in Fields |-> IF k \in ConfigFields THEN Val(k, preset) ELSE Val(k, c[k])] :
        c \in [StatusFields -> {0, 1}], preset \in {0, 1} }

\* The field whose value each one-argument dispatcher passes as payload.
SetterField ==
    [ SET_LOADING |-> "loading", SET_ERROR |-> "error", SET_DATA |-> "data",
      SET_INDICATORS |-> "indicators", SET_TRADES |-> "trades",
      SET_PERFORMANCE |-> "performance", SET_CONNECTION_STATUS |-> "isConnected",
      SET_LIVE_TRADING |-> "isLiveTrading" ]

PatchTypes == {"UPDATE_CONFIG", "UPDATE_STRATEGY_PARAMS"}

\* One evaluation of tradingReducer on the state and action held in args.
tradingReducer_eval ==
    /\ ~IsNull(args)
    /\ IsNull(result)
    /\ result' = Present(tradingReducer(Deref(args).state, Deref(args).action))
    /\ UNCHANGED <<storeVars, gatewayVars, uiVars, args>>

InitReducer ==
    /\ state = initialState
    /\ lastAction = "none"
    /\ InitGateway
    /\ InitDashboard
    /\ \E s \in ReducerStates :
          \/ \E T \in DOMAIN SetterField : \E c \in {0, 1} :
                 args = Present([state |-> s,
                                 action |-> [type |-> T,
                                             payload |-> Val(SetterField[T], c)]])
          \/ \E T \in PatchTypes : \E D \in PatchDomains : \E c \in PatchChoices(D) :
                 args = Present([state |-> s,
                                 action |-> [type |-> T,
                                             payload |-> [k \in D |-> Val(k, c[k])]]])
          \/ args = Present([state |-> s, action |-> [type |-> "CLEAR_DATA"]])
    /\ result = Absent

NextReducer == tradingReducer_eval

SpecReducer == InitReducer /\ [][NextReducer]_vars

\* tradingReducer has been evaluated on an action of type T.
Reduced(T) ==
    ~IsNull(args) /\ ~IsNull(result) /\ Deref(args).action.type = T

\* The evaluated transition changed no field outside K.
OnlyChanged(K) ==
    /\ DOMAIN Deref(result) = Fields
    /\ \A k \in Fields \ K : Deref(result)[k] = Deref(args).state[k]

\* C21 as stated: SET_LOADING, in any state and with any payload, results in
\* loading = true and error = null.
C21_BeginLoad ==
    Reduced("SET_LOADING") =>
        /\ Deref(result).loading = TRUE
        /\ Deref(result).error = NULL

\* C21 amended: SET_LOADING, in any state, results in loading equal to its
\* payload and error = null, and changes nothing else; with payload true
\* this is loading = true and error = null.
C21_SetLoadingStoresPayload ==
    Reduced("SET_LOADING") =>
        /\ Deref(result).loading = Deref(args).action.payload
        /\ Deref(result).error = NULL
        /\ OnlyChanged({"loading", "error"})

\* setLoading(false) applied while loading with an error recorded.
C21_Witness ==
    /\ Reduced("SET_LOADING")
    /\ Deref(args).action.payload = FALSE
    /\ Deref(args).state.loading = TRUE
    /\ Deref(args).state.error = "e1"
    /\ Deref(result).loading = FALSE
    /\ Deref(result).error = NULL


\* The one-argument updates C22 names, each with the field it owns.
OwnFieldTypes ==
    {"SET_INDICATORS", "SET_TRADES", "SET_PERFORMANCE",
     "SET_CONNECTION_STATUS", "SET_LIVE_TRADING"}

\* C22: SET_INDICATORS, SET_TRADES, SET_PERFORMANCE, SET_CONNECTION_STATUS and
\* SET_LIVE_TRADING each set their own field to the payload and leave every
\* other field, loading and error included, unchanged; UPDATE_CONFIG and
\* UPDATE_STRATEGY_PARAMS set exactly the fields named in the payload to the
\* given values and leave all other fields unchanged.
C22_FrameEffects ==
    /\ \A T \in OwnFieldTypes :
          Reduced(T) =>
              /\ Deref(result)[SetterField[T]] = Deref(args).action.payload
              /\ OnlyChanged({SetterField[T]})
    /\ \A T \in PatchTypes :
          Reduced(T) =>
              /\ \A k \in DOMAIN Deref(args).action.payload :
                     Deref(result)[k] = Deref(args).action.payload[k]
              /\ OnlyChanged(DOMAIN Deref(args).action.payload)

\* Indicators replaced by a different value while loading with an error
\* recorded: loading and error stay as they were.
C22_Witness ==
    /\ Reduced("SET_INDICATORS")
    /\ Deref(args).state.loading = TRUE
    /\ Deref(args).state.error = "e1"
    /\ Deref(args).state.indicators # Deref(args).action.payload
    /\ Deref(result).indicators = Deref(args).action.payload
    /\ Deref(result).loading = TRUE
    /\ Deref(result).error = "e1"


\* C23 as stated: whenever no gateway call is in the middle of its
\* statements, the snapshot held by the store (TradingContext) and the
\* snapshot the dashboard renders (the hook's) have equal data, indicators,
\* trades, performance, loading and error.
C23_StoreMirrorsHook ==
    Idle =>
        /\ state.data = data
        /\ state.indicators = indicators
        /\ state.trades = trades
        /\ state.performance = performance
        /\ state.loading = loading
        /\ state.error = error


(***************************************************************************)
(* The page: Sidebar's configuration controls and TradingDashboard with    *)
(* its mount effect, its Retry button and handleRunBacktest, calling the   *)
(* dashboard's own useTradingData hook.                                    *)
(***************************************************************************)

MaxClicks == 2

\* The values the three configuration controls can be set to.
Configs3 == { [k \in WindowFields |-> Val(k, c[k])] : c \in [WindowFields -> {0, 1}] }

\* symbol, interval, daysBack as TradingDashboard holds them.
DashboardConfig == [k \in WindowFields |-> dashboard[k]]

\* The page handles a user event: no call is executing, and the effects of
\* the last render have run.
CanClick == Idle /\ dashboard.deps = <<DashboardConfig>> /\ clicks < MaxClicks

\* Sidebar: onChange of the Symbol select, the Timeframe select or the Days
\* Back input: setSymbol / setInterval / setDaysBack of Sidebar's own state.
Sidebar_onChange ==
    \E k \in WindowFields : \E c \in {0, 1} :
        /\ CanClick
        /\ Val(k, c) # sidebar[k]
        /\ sidebar' = [sidebar EXCEPT ![k] = Val(k, c)]
        /\ clicks' = clicks + 1
        /\ UNCHANGED <<storeVars, gatewayVars, viewVars, dashboard, requests>>

\* The effect with the error among its dependencies: it runs again once a
\* call has failed.
TradingDashboard_useEffect_onError ==
    /\ \/ dashboard.deps # <<DashboardConfig>>
       \/ Idle /\ ~loading /\ Truthy(error)
    /\ fetchData_setLoading
    /\ dashboard' = [dashboard EXCEPT !.deps = <<DashboardConfig>>]
    /\ requests' = Append(requests, [op |-> "fetchData", config |-> DashboardConfig])
    /\ UNCHANGED <<sidebar, clicks>>

\* useEffect(() => { fetchData(symbol, interval, daysBack); },
\*           [symbol, interval, daysBack]): runs after the first render and
\* after a render in which a dependency differs from the last run's.
TradingDashboard_useEffect ==
    /\ dashboard.deps # <<DashboardConfig>>
    /\ fetchData_setLoading
    /\ dashboard' = [dashboard EXCEPT !.deps = <<DashboardConfig>>]
    /\ requests' = Append(requests, [op |-> "fetchData", config |-> DashboardConfig])
    /\ UNCHANGED <<sidebar, clicks>>

\* <RetryButton onClick={() => fetchData(symbol, interval, daysBack)}>, part
\* of the error view only.
Retry_onClick ==
    /\ CanClick
    /\ TradingDashboard_render.view = "error"
    /\ fetchData_setLoading
    /\ requests' = Append(requests, [op |-> "fetchData", config |-> DashboardConfig])
    /\ clicks' = clicks + 1
    /\ UNCHANGED <<sidebar, dashboard>>

\* handleRunBacktest: await runBacktest(symbol, interval, {...}). No element
\* of the rendered tree has it as a handler; the step is an invocation by
\* whatever gets wired to it.
handleRunBacktest ==
    /\ CanClick
    /\ runBacktest_setLoading
    /\ requests' = Append(requests, [op |-> "runBacktest", config |-> DashboardConfig])
    /\ clicks' = clicks + 1
    /\ UNCHANGED <<sidebar, dashboard>>

\* The statements of fetchData and runBacktest after their first.
CallSteps ==
    \/ fetchData_await
    \/ fetchData_setData
    \/ fetchData_setIndicators
    \/ fetchData_catch
    \/ fetchData_finally
    \/ runBacktest_await
    \/ runBacktest_setTrades
    \/ runBacktest_setPerformance
    \/ runBacktest_catch
    \/ runBacktest_finally

NextDashboard ==
    \/ TradingDashboard_useEffect
    \/ Sidebar_onChange
    \/ Retry_onClick
    \/ handleRunBacktest
    \/ respond
    \/ CallSteps

SpecDashboard == Init /\ [][NextDashboard]_vars

\* The event loop runs an entered call to its next await, React runs a
\* pending effect, and the backend answers every request; the user is under
\* no obligation to act.
SpecDashboardFair ==
    /\ Init
    /\ [][NextDashboard]_vars
    /\ WF_vars(~Idle /\ CallSteps)
    /\ WF_vars(TradingDashboard_useEffect)
    /\ SF_vars(respondData)

\* A fetchData call carrying configuration cfg has been issued.
Requested(cfg) ==
    \E i \in DOMAIN requests : requests[i] = [op |-> "fetchData", config |-> cfg]

\* C24 as stated: once the configuration controls show a symbol, interval
\* and daysBack, then, unless the user changes them again, a fetchData
\* request carrying these three values is eventually issued.
C24_ConfigChangeFetches ==
    \A cfg \in Configs3 :
        (sidebar = cfg) ~> (sidebar # cfg \/ Requested(cfg))


\* C25: no request is issued automatically. The number of fetchData and
\* runBacktest calls issued never exceeds one (the initial load) plus the
\* number of user events handled, and every call after the first is issued
\* by the step that handles a user event, one call per event; so after a
\* failed call nothing further is issued until the user acts.
C25_NoAutomaticRetry ==
    /\ [](Len(requests) <= 1 + clicks)
    /\ [][ Len(requests') > Len(requests) =>
               /\ Len(requests') = Len(requests) + 1
               /\ requests = <<>> \/ clicks' = clicks + 1 ]_vars

\* The initial load failed, the user pressed Retry, the retried call failed
\* too, and the page is at rest with exactly two calls issued.
C25_Witness ==
    /\ Idle
    /\ inflight = <<>>
    /\ ~loading
    /\ Truthy(error)
    /\ clicks = 1
    /\ Len(requests) = 2
    /\ requests[2].op = "fetchData"
    /\ sidebar = DashboardConfig


(***************************************************************************)
(* A fetchData call and a runBacktest call of the dashboard that overlap:  *)
(* the backend's answer to each is fixed beforehand and arrives once both  *)
(* requests are out, in either order.                                      *)
(***************************************************************************)

\* The answers the backend will give, by operation.
Answers == Deref(args)

\* Both a fetchData and a runBacktest call have been issued.
BothIssued == { requests[i].op : i \in DOMAIN requests } = DataCalls

\* An answer arrives to one of two overlapping requests, or to the one that
\* is left.
respondOverlapping ==
    /\ BothIssued
    /\ respond
    /\ running'.resp = Answers[running'.op]

InitOverlap ==
    /\ state = initialState
    /\ lastAction = "none"
    /\ InitGateway
    /\ InitDashboard
    /\ args \in { Present([fetchData |-> rf, runBacktest |-> rb]) :
                    rf \in Responses("fetchData"), rb \in Responses("runBacktest") }
    /\ result = Absent

NextOverlap ==
    \/ TradingDashboard_useEffect
    \/ handleRunBacktest
    \/ respondOverlapping
    \/ CallSteps

SpecOverlap == InitOverlap /\ [][NextOverlap]_vars

\* Every call issued has been answered and has run to its end.
AllResolved == BothIssued /\ Idle /\ inflight = <<>>

\* C26: when an overlapping fetchData and runBacktest have both succeeded
\* and resolved, data, indicators, trades, performance, loading and error
\* are determined by the two answers alone, hence the same whichever of the
\* two resolved first.
C26_OrderIndependent ==
    (AllResolved /\ Answers.fetchData.kind = "ok"
                 /\ Answers.runBacktest.kind = "ok" /\ Answers.runBacktest.hasResults) =>
        /\ data = Answers.fetchData.data
        /\ indicators = Answers.fetchData.indicators
        /\ trades = (IF Answers.runBacktest.trades = NULL THEN "[]"
                     ELSE Answers.runBacktest.trades)
        /\ performance = Answers.runBacktest.performance
        /\ loading = FALSE
        /\ error = NULL

\* Both succeeded, and the fetchData call, issued first, resolved last.
C26_Witness ==
    /\ AllResolved
    /\ Len(requests) = 2
    /\ requests[1].op = "fetchData"
    /\ completed.op = "fetchData"
    /\ ~completed.thrown
    /\ data = "d2"
    /\ trades = "t1"
    /\ performance = "p1"
    /\ Answers.runBacktest.kind = "ok"


\* C27 as stated: in every reachable state, loading = false implies that no
\* fetchData or runBacktest request is in flight.
C27_LoadingCoversInFlight ==
    ~loading => ~DataInFlight

====
